---- MODULE Spec2Model ----
(***************************************************************************)
(* Model of Djiit/daily: the review enrichment worker pool                 *)
(* (cmd/reviews.go, enrichPRsConcurrently / enrichPRWithDetails), its      *)
(* caller getGitHubReviews, the provider aggregator                        *)
(* (internal/provider/provider.go), the summary cache                      *)
(* (internal/cache/cache.go), the sum command (cmd/sum.go) and the Update  *)
(* handlers of the reviews and todo TUI models (internal/tui).             *)
(*                                                                         *)
(* Goroutines of the pool are modelled by their position: the caller       *)
(* (mainPC), the job sender (sendIdx, jobsClosed) and the workers.  The    *)
(* workers run the same closure and their workerID is used in log text     *)
(* only, so a worker is represented by the job it holds: `idle` counts     *)
(* the workers blocked in `range jobs`, `busy` holds one record per        *)
(* worker that has dequeued a job, `exited` counts wg.Done() calls.        *)
(* Time is counted in steps of half a rate interval.                       *)
(***************************************************************************)
EXTENDS Integers, Sequences, FiniteSets, TLC

\* Largest candidate list explored with free call outcomes (Spec).
MaxPRs == 3

\* Largest candidate list explored with every detail call failing (SpecLoad).
MaxLoadPRs == 6

\* Number of distinct candidates the input lists are built from.
NumCandidates == 3

\* reviews.go: const maxWorkers = 5
maxWorkers == 5

\* reviews.go: const rateLimitDelay = 200 * time.Millisecond (in ms)
rateLimitDelay == 200

\* Granularity of the clock: half a rate interval.
Quantum == rateLimitDelay \div 2

min(a, b) == IF a < b THEN a ELSE b

----------------------------------------------------------------------------
(* Data *)

\* github.TodoItem as listed by the provider (a review candidate).
Candidate(k) ==
  [ID |-> k, Title |-> k + 10, Description |-> k + 20, URL |-> k + 30,
   UpdatedAt |-> k + 40, Tags |-> <<k + 50>>, Repository |-> k + 60,
   Number |-> k]

\* output.TodoItem built from a candidate: the six copied fields.
TodoItemOf(pr) ==
  [ID |-> pr.ID, Title |-> pr.Title, Description |-> pr.Description,
   URL |-> pr.URL, UpdatedAt |-> pr.UpdatedAt, Tags |-> pr.Tags]

\* Zero values of output.CIStatus and output.PRDetails.
ZeroCIStatus == [State |-> "", TotalCount |-> 0]
ZeroPRDetails == [Additions |-> 0, Deletions |-> 0, ChangedFiles |-> 0]

\* What the remote service answers for a candidate when the call succeeds.
RemoteCIStatus(pr) == [State |-> "success", TotalCount |-> pr.Number]
RemotePRDetails(pr) ==
  [Additions |-> pr.Number, Deletions |-> pr.Number + 1,
   ChangedFiles |-> pr.Number + 2]

\* output.ReviewItem with only the base fields set (the fallback item, and
\* the value enrichPRWithDetails starts from).
BaseItem(pr) ==
  [TodoItem |-> TodoItemOf(pr), CIStatus |-> ZeroCIStatus,
   PRDetails |-> ZeroPRDetails]

\* Zero value of output.ReviewItem (what make([]ReviewItem, n) holds).
ZeroItem ==
  [TodoItem |-> [ID |-> 0, Title |-> 0, Description |-> 0, URL |-> 0,
                 UpdatedAt |-> 0, Tags |-> <<>>],
   CIStatus |-> ZeroCIStatus, PRDetails |-> ZeroPRDetails]

NoErr == "nil"
ErrCI == "errCIStatus"
ErrDetails == "errPRDetails"

----------------------------------------------------------------------------
VARIABLES
  prs,          \* input list of candidates
  ctxDone,      \* the context is cancelled / past its deadline
  mainPC,       \* position of the caller: start, collect, wait, returned
  poolStarted,  \* workers, sender and ticker were created
  jobs,         \* jobs channel (FIFO of prJob)
  jobsClosed,   \* close(jobs) was executed
  sendIdx,      \* number of jobs the sender has sent
  idle,         \* workers blocked in `range jobs`
  busy,         \* workers holding a job: [job, pc, reviewItem, err]
  exited,       \* workers that returned (wg.Done)
  results,      \* results channel (FIFO of prResult)
  reviewItems,  \* output list of the collector
  collected,    \* loop counter i of the collector
  successCount, \* collector's successCount
  ret,          \* returned list
  tickerOn,     \* the ticker exists and was not stopped
  tickerC,      \* ticks buffered in ticker.C (capacity 1)
  elapsed,      \* time since the last tick of the ticker
  sinceDispatch,\* time since the last dispatch, capped at rateLimitDelay
  outcome,      \* history: per index, the error enrichPRWithDetails returned
  providers,    \* Aggregator.providers, in registration order
  aggPC,        \* aggregator: idle, loop (inside a call), done (call returned)
  aggCall,      \* the running call: [fn, verbose, date]
  aggIdx,       \* number of providers the loop has passed
  allActivities,\* the loop's allActivities
  aggCalls,     \* history: the GetActivities calls of the call, in order
  summary,      \* the Summary returned by the last call
  aggErr,       \* the error returned by the last call
  written,      \* history: per index, writes of the collector to that position
  calls,        \* history: per index, dequeues and detail calls made for the job
  jPC,          \* one job: idle, ci, details, returned, reported
  jPR,          \* one job: the candidate
  jConfigured,  \* one job: provider.IsConfigured()
  jCtxDone,     \* one job: the context is done
  jItem,        \* one job: reviewItem of enrichPRWithDetails
  jErr,         \* one job: err of enrichPRWithDetails (GetPRCIStatus)
  jCalls,       \* one job, history: the detail calls made, [op, ok]
  jRet,         \* one job: what enrichPRWithDetails returned, [reviewItem, err]
  jResult,      \* one job: the prResult the worker sent
  now,          \* cache: the clock, in units since a UTC midnight
  zone,         \* cache: offset of time.Local from UTC, in units
  files,        \* cache: files of cacheDir, [name, data]
  lastOp,       \* cache, history: the last call and what it did
  revPC,        \* getGitHubReviews: position of the call
  skipDetails,  \* getGitHubReviews: the skipDetails argument
  userRequests, \* getGitHubReviews: result of GetUserReviewRequests
  teamRequests, \* getGitHubReviews: result of GetTeamReviewRequests
  reviews,      \* getGitHubReviews: the GitHubReviews value
  revErr,       \* getGitHubReviews: the returned error
  revLog,       \* getGitHubReviews, history: the steps performed, in order
  ticks,        \* pool, history kept by SpecRate: ticks emitted, up to len(prs)
  prevCall,     \* aggregator, history kept by SpecAggSeq: the call before
  sumPC,        \* sum command: idle, cache, fetch, store, done
  sumFlags,     \* sum command: the --since and --date flags
  usingSince,   \* sum command: usingSince
  targetDate,   \* sum command: targetDate
  sumSummary,   \* sum command: the summary obtained from the aggregator
  sumOut,       \* sum command: what was rendered and the returned error
  sumLog,       \* sum command, history: cache and aggregator calls made
  sumRuns,      \* sum command: number of runs started
  tuiKind,      \* TUI: which model runs, reviews or todo
  allItems,     \* TUI: m.allItems, each item given by its URL (0 is "")
  selectedItem, \* TUI: m.selectedItem
  vpHeight,     \* TUI: m.leftViewport.height (reviews model)
  vpOffset,     \* TUI: m.leftViewport.offset (reviews model)
  tuiCmd,       \* TUI: the command the last Update returned
  tuiReads,     \* TUI, history: the index of allItems the last Update read
  tuiPanic      \* TUI: Update panicked with index out of range

poolVars ==
  <<prs, ctxDone, mainPC, poolStarted, jobs, jobsClosed, sendIdx, idle, busy,
    exited, results, reviewItems, collected, successCount, ret, tickerOn,
    tickerC, elapsed, sinceDispatch, outcome, written, calls>>

aggVars ==
  <<providers, aggPC, aggCall, aggIdx, allActivities, aggCalls, summary, aggErr>>

jobVars == <<jPC, jPR, jConfigured, jCtxDone, jItem, jErr, jCalls, jRet, jResult>>

cacheVars == <<now, zone, files, lastOp>>

revVars ==
  <<revPC, skipDetails, userRequests, teamRequests, reviews, revErr, revLog>>

rateVars == <<ticks>>

seqVars == <<prevCall>>

sumVars ==
  <<sumPC, sumFlags, usingSince, targetDate, sumSummary, sumOut, sumLog,
    sumRuns>>

tuiVars ==
  <<tuiKind, allItems, selectedItem, vpHeight, vpOffset, tuiCmd, tuiReads,
    tuiPanic>>

lateVars == <<rateVars, seqVars, sumVars, tuiVars>>

nonPoolVars == <<aggVars, jobVars, cacheVars, revVars, lateVars>>

vars == <<poolVars, aggVars, jobVars, cacheVars, revVars, lateVars>>

N == Len(prs)

\* Variant of NumWorkers: one worker per candidate, without the cap.
NumWorkersUncapped == Len(prs)

\* Number of workers started: min(maxWorkers, len(prs)).
NumWorkers == min(maxWorkers, N)

\* The input list of length n: candidates taken round-robin from the
\* candidate pool (a list longer than the pool repeats candidates).
InputList(n) == [i \in 1..n |-> Candidate(((i - 1) % NumCandidates) + 1)]

\* No call of the aggregator is running.
NoCall == [fn |-> "none", verbose |-> FALSE, date |-> 0]

\* A nil *activity.Summary.
NilSummary == [nil |-> TRUE, Date |-> 0, Activities |-> <<>>]

\* The aggregator before any provider is registered and any call is made.
AggIdle ==
  /\ providers = <<>>
  /\ aggPC = "idle"
  /\ aggCall = NoCall
  /\ aggIdx = 0
  /\ allActivities = <<>>
  /\ aggCalls = <<>>
  /\ summary = NilSummary
  /\ aggErr = "none"

\* No enrichPRWithDetails call has returned, no worker has sent a result.
NoJobRet == [reviewItem |-> ZeroItem, err |-> "none"]
NoJobResult == [index |-> 0, reviewItem |-> ZeroItem, err |-> "none"]

\* The single-job machine before it is used.
JobIdle ==
  /\ jPC = "idle"
  /\ jPR = Candidate(1)
  /\ jConfigured = TRUE
  /\ jCtxDone = FALSE
  /\ jItem = ZeroItem
  /\ jErr = NoErr
  /\ jCalls = <<>>
  /\ jRet = NoJobRet
  /\ jResult = NoJobResult

\* A time.Time: an instant and the offset of its Location.
NoDate == [t |-> 0, loc |-> 0]

\* No cache call was made yet.
NoOp ==
  [op |-> "none", date |-> NoDate, now |-> 0, changed |-> FALSE,
   err |-> NoErr, answer |-> FALSE]

\* The cache before it is used.
CacheIdle ==
  /\ now = 0
  /\ zone = 0
  /\ files = {}
  /\ lastOp = NoOp

\* reviews.go 103: var reviews output.GitHubReviews (both lists nil).
NoReviews == [UserRequests |-> <<>>, TeamRequests |-> <<>>]

\* getGitHubReviews before it is called.
RevIdle ==
  /\ revPC = "idle"
  /\ skipDetails = FALSE
  /\ userRequests = <<>>
  /\ teamRequests = <<>>
  /\ reviews = NoReviews
  /\ revErr = "none"
  /\ revLog = <<>>

\* No aggregator call was made before the running one.
NoPrevCall ==
  [done |-> FALSE, fn |-> "none", verbose |-> FALSE, date |-> 0,
   providers |-> <<>>, calls |-> <<>>, activities |-> <<>>]

\* The sum command is not running.
NoFlags == [since |-> "", date |-> ""]
NoOutput == [shown |-> NilSummary, from |-> "none", err |-> "none"]
SumIdle ==
  /\ sumPC = "idle"
  /\ sumFlags = NoFlags
  /\ usingSince = FALSE
  /\ targetDate = NoDate
  /\ sumSummary = NilSummary
  /\ sumOut = NoOutput
  /\ sumLog = <<>>
  /\ sumRuns = 0

\* No TUI model runs.
TuiIdle ==
  /\ tuiKind = "none"
  /\ allItems = <<>>
  /\ selectedItem = 0
  /\ vpHeight = 0
  /\ vpOffset = 0
  /\ tuiCmd = "none"
  /\ tuiReads = {}
  /\ tuiPanic = FALSE

\* The parts of the model that the other specifications leave alone.
LateIdle ==
  /\ ticks = 0
  /\ prevCall = NoPrevCall
  /\ SumIdle
  /\ TuiIdle

\* No dequeue and no detail call was made for a job.
NoCalls == [recv |-> 0, ci |-> 0, details |-> 0]

\* The state of a call of enrichPRsConcurrently at its entry.
PoolEntry(lengths, done) ==
  /\ \E n \in lengths : prs = InputList(n)
  /\ ctxDone = done
  /\ mainPC = "start"
  /\ poolStarted = FALSE
  /\ jobs = <<>>
  /\ jobsClosed = FALSE
  /\ sendIdx = 0
  /\ idle = 0
  /\ busy = {}
  /\ exited = 0
  /\ results = <<>>
  /\ reviewItems = <<>>
  /\ collected = 0
  /\ successCount = 0
  /\ ret = <<>>
  /\ tickerOn = FALSE
  /\ tickerC = 0
  /\ elapsed = 0
  /\ sinceDispatch = rateLimitDelay
  /\ outcome = [i \in 0..(Len(prs) - 1) |-> "none"]
  /\ written = [i \in 0..(Len(prs) - 1) |-> 0]
  /\ calls = [i \in 0..(Len(prs) - 1) |-> NoCalls]

InitPool(lengths, done) ==
  AggIdle /\ JobIdle /\ CacheIdle /\ RevIdle /\ LateIdle
    /\ PoolEntry(lengths, done)

----------------------------------------------------------------------------
(* enrichPRWithDetails, as two remote calls *)

\* Outcomes a remote call can have: it fails once the context is done,
\* and may fail for any other reason as well.
CallOutcomes(done) == IF done THEN {FALSE} ELSE {TRUE, FALSE}

\* reviews.go 189-197: the item after GetPRCIStatus returned.
AfterCIStatus(item, pr, ok) ==
  IF ok THEN [item EXCEPT !.CIStatus = RemoteCIStatus(pr)] ELSE item

\* Variant of AfterPRDetails: the details are kept only on an item that
\* already has its CI status.
AfterPRDetailsNeedsCI(item, pr, ok) ==
  IF ok /\ item.CIStatus # ZeroCIStatus
    THEN [item EXCEPT !.PRDetails = RemotePRDetails(pr)] ELSE item

\* reviews.go 200-208: the item after GetPRDetails returned.
AfterPRDetails(item, pr, ok) ==
  IF ok THEN [item EXCEPT !.PRDetails = RemotePRDetails(pr)] ELSE item

\* Variant of FirstError: the error of the later call wins.
LastError(err, err2) == IF err2 # NoErr THEN err2 ELSE err

\* reviews.go 210-218: the first error encountered, if any.
FirstError(err, err2) == IF err # NoErr THEN err ELSE err2

\* Variant of CallAfterCIStatus: a failed check-status call is repeated.
CallAfterCIStatusRetry(ok) == IF ok THEN "details" ELSE "ci"

\* reviews.go 189-200: GetPRDetails is called next, whatever GetPRCIStatus
\* returned (the value names the call).
CallAfterCIStatus(ok) == "details"

\* Variant of FallbackItem: the fallback does not copy the candidate.
FallbackItemEmpty(pr) == ZeroItem

\* reviews.go 292-302: the fallback item built by the worker.
FallbackItem(pr) == BaseItem(pr)

\* Variant of ReportedItem: the partially enriched item is reported as is.
ReportedItemKeepsPartial(item, pr, err) == item

\* reviews.go 287-303: the item the worker reports.
ReportedItem(item, pr, err) == IF err # NoErr THEN FallbackItem(pr) ELSE item

----------------------------------------------------------------------------
(* enrichPRsConcurrently *)

\* Variant of EmptyInput: the early return is missing.
EmptyInputNeverTaken == FALSE

\* reviews.go 243: the empty-input test.
EmptyInput == Len(prs) = 0

\* Variant of JobFor: every job carries the index of the first one.
JobForUntagged(i) == [index |-> 0, pr |-> prs[i + 1]]

\* reviews.go 318: the job sent for position i (0-based).
JobFor(i) == [index |-> i, pr |-> prs[i + 1]]

\* Variant of ResultOf: the result does not carry the error.
ResultOfDropsError(job, item, err) ==
  [index |-> job.index, reviewItem |-> item, err |-> NoErr]

\* reviews.go 305-309: the result a worker emits.
ResultOf(job, item, err) == [index |-> job.index, reviewItem |-> item, err |-> err]

\* reviews.go 323: make([]output.ReviewItem, len(prs)).
MakeReviewItems(n) == [i \in 1..n |-> ZeroItem]

\* Variant of CollectMore: the collector gives up once the context is done.
CollectMoreUnlessDone(i) == i < Len(prs) /\ ~ctxDone

\* Variant of CollectMore: the collector waits for one result more.
CollectMoreOffByOne(i) == i <= Len(prs)

\* reviews.go 326: the collector's loop condition, i < len(prs).
CollectMore(i) == i < Len(prs)

\* Variant of StoreResult: results are appended to the pre-sized list.
StoreResultAppend(items, result, i) == Append(items, result.reviewItem)

\* Variant of StoreResult: results are stored in arrival order.
StoreResultInArrivalOrder(items, result, i) ==
  [items EXCEPT ![i + 1] = result.reviewItem]

\* reviews.go 328: reviewItems[result.index] = result.reviewItem (i is the
\* collector's loop counter, which the position does not depend on).
StoreResult(items, result, i) ==
  [items EXCEPT ![result.index + 1] = result.reviewItem]

\* Variant of WaitGroupDone: the caller does not wait for the workers.
WaitGroupSkipped == TRUE

\* reviews.go 335: wg.Wait() returns once every worker called wg.Done.
WaitGroupDone == exited = NumWorkers

\* Variant of AfterDequeue: the worker starts the calls right after the
\* dequeue.
AfterDequeueNoGate == "ci"

\* reviews.go 277-279: with the job of this iteration in hand (range jobs),
\* the worker next receives from ticker.C.
AfterDequeue == "tick"

\* Variant of TickerAfterTake: a tick lets every waiting worker pass.
TickerAfterTakeKept(c) == c

\* reviews.go 279: <-ticker.C takes the buffered tick out of the channel.
TickerAfterTake(c) == c - 1

\* Workers whose detail calls are in flight.
InFlight == {w \in busy : w.pc \in {"ci", "details"}}

\* Jobs that have passed the ticker gate so far.
Dispatched == Cardinality(InFlight) + Len(results) + collected

\* reviews.go 242-245 and 263-275, 315, 323: the call starts.
Start ==
  /\ mainPC = "start"
  /\ IF EmptyInput
       THEN /\ ret' = <<>>
            /\ mainPC' = "returned"
            /\ UNCHANGED <<poolStarted, idle, reviewItems, tickerOn, elapsed>>
       ELSE /\ poolStarted' = TRUE
            /\ tickerOn' = TRUE
            /\ elapsed' = 0
            /\ idle' = NumWorkers
            /\ reviewItems' = MakeReviewItems(Len(prs))
            /\ mainPC' = "collect"
            /\ ret' = ret
  /\ UNCHANGED <<nonPoolVars, prs, ctxDone, jobs, jobsClosed, sendIdx, busy, exited,
                 results, collected, successCount, tickerC, sinceDispatch,
                 outcome, written, calls>>

\* reviews.go 317-319: the sender goroutine sends the next job.
SendJob ==
  /\ poolStarted /\ ~jobsClosed /\ sendIdx < Len(prs)
  /\ jobs' = Append(jobs, JobFor(sendIdx))
  /\ sendIdx' = sendIdx + 1
  /\ UNCHANGED <<nonPoolVars, prs, ctxDone, mainPC, poolStarted, jobsClosed, idle, busy,
                 exited, results, reviewItems, collected, successCount, ret,
                 tickerOn, tickerC, elapsed, sinceDispatch, outcome,
                 written, calls>>

\* reviews.go 316: defer close(jobs).
CloseJobs ==
  /\ poolStarted /\ ~jobsClosed /\ sendIdx = Len(prs)
  /\ jobsClosed' = TRUE
  /\ UNCHANGED <<nonPoolVars, prs, ctxDone, mainPC, poolStarted, jobs, sendIdx, idle, busy,
                 exited, results, reviewItems, collected, successCount, ret,
                 tickerOn, tickerC, elapsed, sinceDispatch, outcome,
                 written, calls>>

\* reviews.go 277: a worker receives the next job from the channel.
WorkerRecv ==
  /\ idle > 0 /\ Len(jobs) > 0
  /\ busy' = busy \cup {[job |-> Head(jobs), pc |-> AfterDequeue,
                         reviewItem |-> ZeroItem, err |-> NoErr]}
  /\ jobs' = Tail(jobs)
  /\ idle' = idle - 1
  /\ calls' = [calls EXCEPT ![Head(jobs).index].recv = @ + 1]
  /\ UNCHANGED <<nonPoolVars, prs, ctxDone, mainPC, poolStarted, jobsClosed, sendIdx,
                 exited, results, reviewItems, collected, successCount, ret,
                 tickerOn, tickerC, elapsed, sinceDispatch, outcome,
                 written>>

\* reviews.go 277, 275: range over the closed, drained channel ends; wg.Done.
WorkerExit ==
  /\ idle > 0 /\ Len(jobs) = 0 /\ jobsClosed
  /\ idle' = idle - 1
  /\ exited' = exited + 1
  /\ UNCHANGED <<nonPoolVars, prs, ctxDone, mainPC, poolStarted, jobs, jobsClosed, sendIdx,
                 busy, results, reviewItems, collected, successCount, ret,
                 tickerOn, tickerC, elapsed, sinceDispatch, outcome,
                 written, calls>>

\* reviews.go 279, 177-189: the worker takes a tick and starts the calls.
WorkerTick(w) ==
  /\ w.pc = "tick" /\ tickerC > 0
  /\ tickerC' = TickerAfterTake(tickerC)
  /\ busy' = (busy \ {w}) \cup
               {[w EXCEPT !.pc = "ci", !.reviewItem = BaseItem(w.job.pr)]}
  /\ sinceDispatch' = 0
  /\ calls' = [calls EXCEPT ![w.job.index].ci = @ + 1]
  /\ UNCHANGED <<nonPoolVars, prs, ctxDone, mainPC, poolStarted, jobs, jobsClosed, sendIdx,
                 idle, exited, results, reviewItems, collected, successCount,
                 ret, tickerOn, elapsed, outcome, written>>

\* reviews.go 189-200: GetPRCIStatus returns and the next call is made.
WorkerCIStatus(w) ==
  /\ w.pc = "ci"
  /\ \E ok \in CallOutcomes(ctxDone) :
       /\ busy' = (busy \ {w}) \cup
            {[w EXCEPT !.pc = CallAfterCIStatus(ok),
                       !.reviewItem = AfterCIStatus(w.reviewItem, w.job.pr, ok),
                       !.err = IF ok THEN NoErr ELSE ErrCI]}
       /\ calls' = [calls EXCEPT ![w.job.index][CallAfterCIStatus(ok)] = @ + 1]
  /\ UNCHANGED <<nonPoolVars, prs, ctxDone, mainPC, poolStarted, jobs, jobsClosed, sendIdx,
                 idle, exited, results, reviewItems, collected, successCount,
                 ret, tickerOn, tickerC, elapsed, sinceDispatch, outcome,
                 written>>

\* reviews.go 200-218, 288-310: GetPRDetails returns, the worker builds the
\* reported item and sends the result, then loops.
WorkerPRDetails(w) ==
  /\ w.pc = "details"
  /\ \E ok \in CallOutcomes(ctxDone) :
       LET item == AfterPRDetails(w.reviewItem, w.job.pr, ok)
           err  == FirstError(w.err, IF ok THEN NoErr ELSE ErrDetails)
       IN /\ results' = Append(results,
                          ResultOf(w.job, ReportedItem(item, w.job.pr, err), err))
          /\ outcome' = [outcome EXCEPT ![w.job.index] = err]
  /\ busy' = busy \ {w}
  /\ idle' = idle + 1
  /\ UNCHANGED <<nonPoolVars, prs, ctxDone, mainPC, poolStarted, jobs, jobsClosed, sendIdx,
                 exited, reviewItems, collected, successCount, ret, tickerOn,
                 tickerC, elapsed, sinceDispatch, written, calls>>

\* reviews.go 326-332: the collector receives one result.
Collect ==
  /\ mainPC = "collect" /\ Len(results) > 0
  /\ LET result == Head(results)
     IN /\ reviewItems' = StoreResult(reviewItems, result, collected)
        /\ successCount' = IF result.err = NoErr THEN successCount + 1
                                                ELSE successCount
  /\ results' = Tail(results)
  /\ collected' = collected + 1
  /\ written' = [written EXCEPT ![Head(results).index] = @ + 1]
  /\ mainPC' = IF CollectMore(collected + 1) THEN "collect" ELSE "wait"
  /\ UNCHANGED <<nonPoolVars, prs, ctxDone, poolStarted, jobs, jobsClosed, sendIdx, idle,
                 busy, exited, ret, tickerOn, tickerC, elapsed, sinceDispatch,
                 outcome, calls>>

\* reviews.go 335-342, 268: wg.Wait returns, the ticker is stopped, return.
Return ==
  /\ mainPC = "wait" /\ WaitGroupDone
  /\ ret' = reviewItems
  /\ tickerOn' = FALSE
  /\ mainPC' = "returned"
  /\ UNCHANGED <<nonPoolVars, prs, ctxDone, poolStarted, jobs, jobsClosed, sendIdx, idle,
                 busy, exited, results, reviewItems, collected, successCount,
                 tickerC, elapsed, sinceDispatch, outcome,
                 written, calls>>

\* The ticker fires in the next quantum.
TickDue == elapsed + Quantum >= rateLimitDelay

\* time.Ticker: time passes by one quantum; every rateLimitDelay the ticker
\* sends on ticker.C, and drops the tick when the channel already holds one.
AdvanceClock ==
  /\ tickerOn
  /\ LET e == elapsed + Quantum
     IN IF e >= rateLimitDelay
          THEN /\ elapsed' = e - rateLimitDelay
               /\ tickerC' = 1
          ELSE /\ elapsed' = e
               /\ tickerC' = tickerC
  /\ sinceDispatch' = min(sinceDispatch + Quantum, rateLimitDelay)
  /\ UNCHANGED <<aggVars, jobVars, cacheVars, revVars, seqVars, sumVars,
                 tuiVars, prs, ctxDone, mainPC, poolStarted, jobs, jobsClosed,
                 sendIdx, idle, busy, exited, results, reviewItems, collected,
                 successCount, ret, tickerOn, outcome, written, calls>>

\* Time passes; the emitted ticks are not counted.
Advance == AdvanceClock /\ UNCHANGED ticks

\* Time passes; an emitted tick is counted, taken or dropped (the count
\* stops at len(prs), the number of dispatches of a call).
AdvanceCounting ==
  /\ AdvanceClock
  /\ ticks' = IF TickDue THEN min(ticks + 1, Len(prs)) ELSE ticks

\* context: the caller's context is cancelled or its deadline passes.
Cancel ==
  /\ ~ctxDone /\ mainPC # "returned"
  /\ ctxDone' = TRUE
  /\ UNCHANGED <<nonPoolVars, prs, mainPC, poolStarted, jobs, jobsClosed, sendIdx, idle,
                 busy, exited, results, reviewItems, collected, successCount,
                 ret, tickerOn, tickerC, elapsed, sinceDispatch, outcome,
                 written, calls>>

PoolSteps ==
  \/ Start
  \/ SendJob
  \/ CloseJobs
  \/ WorkerRecv
  \/ WorkerExit
  \/ \E w \in busy : WorkerTick(w)
  \/ \E w \in busy : WorkerCIStatus(w)
  \/ \E w \in busy : WorkerPRDetails(w)
  \/ Collect
  \/ Return

NextLoad ==
  \/ PoolSteps
  \/ Advance

NextPool ==
  \/ NextLoad
  \/ Cancel

\* The pool on lists of up to MaxPRs candidates, every call outcome free.
Spec == InitPool(0..MaxPRs, FALSE) /\ [][NextPool]_vars

\* Largest candidate list explored for progress (SpecLive).
MaxLivePRs == 2

\* Scheduling of the pool: a goroutine that can take a step takes it (the Go
\* scheduler runs every runnable goroutine), a detail call that was made
\* returns, and the ticker keeps ticking while it is not stopped.  The
\* context may be cancelled or not.
PoolFairness ==
  /\ WF_vars(Start)
  /\ WF_vars(SendJob)
  /\ WF_vars(CloseJobs)
  /\ WF_vars(WorkerRecv)
  /\ WF_vars(WorkerExit)
  /\ WF_vars(\E w \in busy : WorkerTick(w))
  /\ WF_vars(\E w \in busy : WorkerCIStatus(w))
  /\ WF_vars(\E w \in busy : WorkerPRDetails(w))
  /\ WF_vars(Collect)
  /\ WF_vars(Return)
  /\ WF_vars(Advance)

\* The pool under fair scheduling, every call outcome free.
SpecLive ==
  InitPool(0..MaxLivePRs, FALSE) /\ [][NextPool]_vars /\ PoolFairness

\* Largest candidate list explored with the ticks counted (SpecRate).
MaxRatePRs == 3

NextRate ==
  \/ PoolSteps
  \/ AdvanceCounting
  \/ Cancel

\* The pool with the ticks of its ticker counted, every call outcome free.
SpecRate == InitPool(0..MaxRatePRs, FALSE) /\ [][NextRate]_vars

\* The pool on lists of up to MaxLoadPRs candidates (more than maxWorkers),
\* called with a context that is already done: every detail call fails, as
\* in TestEnrichPRsConcurrently_ConcurrencyLimits; call durations are free.
SpecLoad == InitPool(0..MaxLoadPRs, TRUE) /\ [][NextLoad]_vars


----------------------------------------------------------------------------
(* Aggregator (internal/provider/provider.go) *)

\* Largest number of registered providers explored.
MaxProviders == 3

\* The activities providers answer with.
Activities == {1, 2}

ProviderNames == {"github", "jira", "obsidian"}

\* A provider: its Name() and its IsConfigured().
ProviderPool == [name : ProviderNames, configured : BOOLEAN]

\* Lists GetActivities can return: empty, one item, or two distinct items
\* in either order; two providers can return the same item.
ActivityLists ==
  {<<>>} \cup {<<a>> : a \in Activities}
         \cup {<<p[1], p[2]>> : p \in {q \in Activities \X Activities :
                                          q[1] # q[2]}}

\* What GetActivities can return: an error, or a list.
Answers ==
  {[err |-> TRUE, activities |-> <<>>]} \cup
  {[err |-> FALSE, activities |-> l] : l \in ActivityLists}

Dates == {1, 2}

AggFunctions ==
  {[fn |-> "GetSummary", verbose |-> FALSE]} \cup
  [fn : {"GetSummaryWithVerbose"}, verbose : BOOLEAN]

\* GetSummary or GetSummaryWithVerbose has returned.
AggReturned == aggPC = "done"

\* Variant of ShouldQuery: the IsConfigured test is missing.
ShouldQueryAlways(p) == TRUE

\* provider.go 60, 88: a provider is queried only when IsConfigured().
ShouldQuery(p) == p.configured

\* Variant of AfterError: a failing provider is asked again.
AfterErrorRetry(i) == i

\* Variant of AfterError: a failing provider ends the loop.
AfterErrorStop(i) == Len(providers)

\* provider.go 65-68, 100-105: after a failed call the loop continues with
\* the next provider.
AfterError(i) == i + 1

\* Variant of AppendActivities: items already present are left out.
AppendActivitiesDedup(all, acts) ==
  all \o SelectSeq(acts, LAMBDA a : \A k \in 1..Len(all) : all[k] # a)

\* provider.go 70: allActivities = append(allActivities, activities...) in
\* GetSummary.
AppendActivities(all, acts) == all \o acts

\* Variant of AppendActivitiesVerbose: the new items are put in front.
AppendActivitiesVerboseFront(all, acts) == acts \o all

\* provider.go 111: the same statement in GetSummaryWithVerbose.
AppendActivitiesVerbose(all, acts) == all \o acts

\* Variant of NewActivities: the list of the call before is kept.
NewActivitiesCarried == allActivities

\* provider.go 57, 85: var allActivities []activity.Activity, a nil list
\* local to the call.
NewActivities == <<>>

\* Variant of SummaryError: the call fails when a provider failed.
SummaryErrorOfProvider(made) ==
  IF \E k \in 1..Len(made) : made[k].result.err THEN "errProvider" ELSE NoErr

\* provider.go 73-76, 114-117: the error returned with the Summary is nil,
\* whatever the GetActivities calls made returned.
SummaryError(made) == NoErr

\* provider.go 40-44: NewAggregator(providers...), here with at most one
\* provider; the others are registered with AddProvider.
InitAgg ==
  /\ PoolEntry({0}, FALSE)
  /\ JobIdle /\ CacheIdle /\ RevIdle /\ LateIdle
  /\ providers \in {<<>>} \cup {<<p>> : p \in ProviderPool}
  /\ aggPC = "idle"
  /\ aggCall = NoCall
  /\ aggIdx = 0
  /\ allActivities = <<>>
  /\ aggCalls = <<>>
  /\ summary = NilSummary
  /\ aggErr = "none"

\* provider.go 47-49: AddProvider.
AddProvider(p) ==
  /\ aggPC \in {"idle", "done"}
  /\ Len(providers) < MaxProviders
  /\ providers' = Append(providers, p)
  /\ aggPC' = "idle"
  /\ UNCHANGED <<lateVars, poolVars, jobVars, cacheVars, revVars, aggCall, aggIdx, allActivities, aggCalls, summary,
                 aggErr>>

\* provider.go 52-57, 80-85: GetSummary / GetSummaryWithVerbose is entered.
BeginSummaryCall(call, date) ==
  /\ aggPC \in {"idle", "done"}
  /\ aggPC' = "loop"
  /\ aggCall' = [fn |-> call.fn, verbose |-> call.verbose, date |-> date]
  /\ aggIdx' = 0
  /\ allActivities' = NewActivities
  /\ aggCalls' = <<>>
  /\ summary' = NilSummary
  /\ aggErr' = "none"
  /\ UNCHANGED <<rateVars, sumVars, tuiVars, poolVars, jobVars, cacheVars,
                 revVars, providers>>

\* A call is entered; the call before it is not remembered.
BeginSummary(call, date) ==
  BeginSummaryCall(call, date) /\ UNCHANGED prevCall

\* A call is entered; the call that returned before it is remembered: its
\* function and arguments, the providers registered when it ran (the loop
\* passed aggIdx of them), its GetActivities calls and the list it
\* returned.
BeginSummaryAfter(call, date) ==
  /\ BeginSummaryCall(call, date)
  /\ prevCall' =
       IF summary.nil THEN prevCall
       ELSE [done |-> TRUE, fn |-> aggCall.fn, verbose |-> aggCall.verbose,
             date |-> summary.Date,
             providers |-> SubSeq(providers, 1, aggIdx),
             calls |-> aggCalls, activities |-> summary.Activities]

\* provider.go 59-71, 87-112: one iteration of the loop over a.providers.
\* result is what GetActivities returns when it is called.
AggStep(result) ==
  /\ aggPC = "loop" /\ aggIdx < Len(providers)
  /\ LET p == providers[aggIdx + 1]
     IN IF ~ShouldQuery(p)
          THEN /\ result.err
               /\ aggIdx' = aggIdx + 1
               /\ UNCHANGED <<allActivities, aggCalls>>
          ELSE /\ aggCalls' = Append(aggCalls,
                                [provider |-> aggIdx + 1, result |-> result])
               /\ IF result.err
                    THEN /\ aggIdx' = AfterError(aggIdx)
                         /\ UNCHANGED allActivities
                    ELSE /\ aggIdx' = aggIdx + 1
                         /\ allActivities' =
                              IF aggCall.fn = "GetSummary"
                                THEN AppendActivities(allActivities,
                                                      result.activities)
                                ELSE AppendActivitiesVerbose(allActivities,
                                                             result.activities)
  /\ UNCHANGED <<lateVars, poolVars, jobVars, cacheVars, revVars, providers, aggPC, aggCall, summary, aggErr>>

\* provider.go 73-76, 114-117: the Summary is returned with a nil error.
AggReturn ==
  /\ aggPC = "loop" /\ aggIdx >= Len(providers)
  /\ summary' = [nil |-> FALSE, Date |-> aggCall.date,
                  Activities |-> allActivities]
  /\ aggErr' = SummaryError(aggCalls)
  /\ aggPC' = "done"
  /\ UNCHANGED <<lateVars, poolVars, jobVars, cacheVars, revVars, providers, aggCall, aggIdx, allActivities, aggCalls>>

NextAgg ==
  \/ \E p \in ProviderPool : AddProvider(p)
  \/ \E call \in AggFunctions, date \in Dates : BeginSummary(call, date)
  \/ \E result \in Answers : AggStep(result)
  \/ AggReturn

\* The aggregator: registrations and calls in any order, every provider
\* answer free.
SpecAgg == InitAgg /\ [][NextAgg]_vars

\* Largest number of registered providers explored when the call before
\* is remembered (SpecAggSeq).
MaxSeqProviders == 2

\* The providers and answers of SpecAggSeq: a configured and an
\* unconfigured provider; an error, one item, two items.
SeqProviders ==
  {[name |-> "github", configured |-> TRUE],
   [name |-> "jira", configured |-> FALSE]}
SeqAnswers ==
  {[err |-> TRUE, activities |-> <<>>], [err |-> FALSE, activities |-> <<1>>],
   [err |-> FALSE, activities |-> <<2, 1>>]}

InitAggSeq ==
  /\ PoolEntry({0}, FALSE)
  /\ AggIdle /\ JobIdle /\ CacheIdle /\ RevIdle /\ LateIdle

NextAggSeq ==
  \/ \E p \in SeqProviders :
       Len(providers) < MaxSeqProviders /\ AddProvider(p)
  \/ \E call \in AggFunctions, date \in Dates : BeginSummaryAfter(call, date)
  \/ \E result \in SeqAnswers : AggStep(result)
  \/ AggReturn

\* The aggregator over sequences of registrations and calls, each call
\* with the call before it at hand.
SpecAggSeq == InitAggSeq /\ [][NextAggSeq]_vars

----------------------------------------------------------------------------
(* One job in a worker: enrichPRWithDetails and the result the worker sends
   (cmd/reviews.go 176-219 and 287-309) *)

\* Candidates handed to enrichPRWithDetails: as listed by the provider, or
\* lacking the repository or the number (0 stands for "" and for 0).
JobCandidates ==
  UNION {{Candidate(k), [Candidate(k) EXCEPT !.Repository = 0],
          [Candidate(k) EXCEPT !.Number = 0]} : k \in 1..NumCandidates}

\* github.go 537-543, 630-636: a detail call fails before any request when
\* the provider is not configured or the repository or number is missing;
\* otherwise its request fails once the context is done, or for any other
\* reason.
DetailCallOutcomes(pr, configured, done) ==
  IF ~configured \/ pr.Repository = 0 \/ pr.Number = 0
    THEN {FALSE} ELSE CallOutcomes(done)

InitJob ==
  /\ AggIdle /\ CacheIdle /\ RevIdle /\ LateIdle /\ PoolEntry({0}, FALSE)
  /\ jPC = "idle"
  /\ jPR \in JobCandidates
  /\ jConfigured \in BOOLEAN
  /\ jCtxDone \in BOOLEAN
  /\ jItem = ZeroItem
  /\ jErr = NoErr
  /\ jCalls = <<>>
  /\ jRet = NoJobRet
  /\ jResult = NoJobResult

\* reviews.go 287, 176-189: the worker calls enrichPRWithDetails, which
\* builds the item from the candidate and calls GetPRCIStatus.
JobEnter ==
  /\ jPC = "idle"
  /\ jItem' = BaseItem(jPR)
  /\ jPC' = "ci"
  /\ UNCHANGED <<lateVars, poolVars, aggVars, cacheVars, revVars, jPR, jConfigured,
                 jCtxDone, jErr, jCalls, jRet, jResult>>

\* reviews.go 189-200: GetPRCIStatus returns; GetPRDetails is called.
JobCIStatus(ok) ==
  /\ jPC = "ci"
  /\ jItem' = AfterCIStatus(jItem, jPR, ok)
  /\ jErr' = IF ok THEN NoErr ELSE ErrCI
  /\ jCalls' = Append(jCalls, [op |-> "GetPRCIStatus", ok |-> ok])
  /\ jPC' = CallAfterCIStatus(ok)
  /\ UNCHANGED <<lateVars, poolVars, aggVars, cacheVars, revVars, jPR, jConfigured,
                 jCtxDone, jRet, jResult>>

\* reviews.go 200-218: GetPRDetails returns; enrichPRWithDetails returns the
\* item and the first error.
JobPRDetails(ok) ==
  /\ jPC = "details"
  /\ LET item == AfterPRDetails(jItem, jPR, ok)
         err  == FirstError(jErr, IF ok THEN NoErr ELSE ErrDetails)
     IN /\ jItem' = item
        /\ jRet' = [reviewItem |-> item, err |-> err]
  /\ jCalls' = Append(jCalls, [op |-> "GetPRDetails", ok |-> ok])
  /\ jPC' = "returned"
  /\ UNCHANGED <<lateVars, poolVars, aggVars, cacheVars, revVars, jPR, jConfigured,
                 jCtxDone, jErr, jResult>>

\* reviews.go 288-309: the worker replaces the item of a failed enrichment
\* by the fallback item and sends the result.
JobReport ==
  /\ jPC = "returned"
  /\ jResult' = ResultOf([index |-> 0, pr |-> jPR],
                         ReportedItem(jRet.reviewItem, jPR, jRet.err), jRet.err)
  /\ jPC' = "reported"
  /\ UNCHANGED <<lateVars, poolVars, aggVars, cacheVars, revVars, jPR, jConfigured,
                 jCtxDone, jItem, jErr, jCalls, jRet>>

\* context: the context is cancelled while the job is under way.
JobCancel ==
  /\ ~jCtxDone /\ jPC # "reported"
  /\ jCtxDone' = TRUE
  /\ UNCHANGED <<lateVars, poolVars, aggVars, cacheVars, revVars, jPC, jPR, jConfigured,
                 jItem, jErr, jCalls, jRet, jResult>>

NextJob ==
  \/ JobEnter
  \/ \E ok \in DetailCallOutcomes(jPR, jConfigured, jCtxDone) : JobCIStatus(ok)
  \/ \E ok \in DetailCallOutcomes(jPR, jConfigured, jCtxDone) : JobPRDetails(ok)
  \/ JobReport
  \/ JobCancel

\* One job on every candidate, provider state and context state, every
\* request outcome free.
SpecJob == InitJob /\ [][NextJob]_vars

----------------------------------------------------------------------------
(* Cache of summaries (internal/cache/cache.go) *)

\* cache.go 56: 24 * time.Hour, in clock units of six hours.
UnitsPerDay == 4

\* Number of days the clock runs through.
MaxDays == 2

\* Offsets of time.Local from UTC, in clock units: UTC-6, UTC, UTC+6.
Zones == {-1, 0, 1}

\* Instants of the clock; instant 0 is a UTC midnight, as Go's zero time.
Instants == UnitsPerDay..((MaxDays + 1) * UnitsPerDay - 1)

\* Contents of a Summary, as far as the cache is concerned.
Summaries == {1, 2}

\* time.Time values a caller passes as date: an instant, in UTC (as
\* time.Parse returns it) or in the local zone (as time.Now returns it).
DatesAt(z) == [t : Instants, loc : {0, z}]

\* t.Truncate(24 * time.Hour): rounds the instant down to a multiple of a
\* day since the zero time, whatever the Location of t.
Truncate(d) == d.t - (d.t % UnitsPerDay)

\* The calendar day of a time.Time in its own Location, which is what
\* date.Format("2006-01-02") prints.
CalendarDay(d) == (d.t + d.loc) \div UnitsPerDay

\* cache.go 88-90: the file name is made of the formatted date.
getFilename(d) == CalendarDay(d)

\* time.Now().
Now == [t |-> now, loc |-> zone]

\* cache.go 56-59: Set returns early unless the date is before today.
SetSkips(date) == ~(Truncate(date) < Truncate(Now))

\* cache.go 82-85: ShouldCache.
ShouldCache(date) == Truncate(date) < Truncate(Now)

\* os.WriteFile: the file of that name is created or replaced.
WriteFile(fs, name, data) ==
  {f \in fs : f.name # name} \cup {[name |-> name, data |-> data]}

InitCache ==
  /\ AggIdle /\ JobIdle /\ RevIdle /\ LateIdle /\ PoolEntry({0}, FALSE)
  /\ now = UnitsPerDay
  /\ zone \in Zones
  /\ files = {}
  /\ lastOp = NoOp

\* cache.go 54-79: Set; ioOK tells whether MkdirAll and WriteFile succeed.
CacheSet(date, data, ioOK) ==
  /\ IF SetSkips(date)
       THEN /\ files' = files
            /\ lastOp' = [op |-> "Set", date |-> date, now |-> now,
                           changed |-> FALSE, err |-> NoErr, answer |-> FALSE]
       ELSE IF ~ioOK
         THEN /\ files' = files
              /\ lastOp' = [op |-> "Set", date |-> date, now |-> now,
                             changed |-> FALSE, err |-> "errWrite",
                             answer |-> FALSE]
         ELSE /\ files' = WriteFile(files, getFilename(date), data)
              /\ lastOp' = [op |-> "Set", date |-> date, now |-> now,
                             changed |-> TRUE, err |-> NoErr, answer |-> FALSE]
  /\ UNCHANGED <<lateVars, poolVars, aggVars, jobVars, revVars, now, zone>>

\* cache.go 82-85: ShouldCache.
CacheShouldCache(date) ==
  /\ lastOp' = [op |-> "ShouldCache", date |-> date, now |-> now,
                 changed |-> FALSE, err |-> NoErr, answer |-> ShouldCache(date)]
  /\ UNCHANGED <<lateVars, poolVars, aggVars, jobVars, revVars, now, zone, files>>

\* cache.go 30-50: Get; answer tells whether a summary was found.
CacheGet(date) ==
  /\ lastOp' = [op |-> "Get", date |-> date, now |-> now, changed |-> FALSE,
                 err |-> NoErr,
                 answer |-> \E f \in files : f.name = getFilename(date)]
  /\ UNCHANGED <<lateVars, poolVars, aggVars, jobVars, revVars, now, zone, files>>

\* cache.go 93-114: Clear removes every file.
CacheClear ==
  /\ files' = {}
  /\ lastOp' = [op |-> "Clear", date |-> NoDate, now |-> now,
                 changed |-> files # {}, err |-> NoErr, answer |-> FALSE]
  /\ UNCHANGED <<lateVars, poolVars, aggVars, jobVars, revVars, now, zone>>

\* Time passes by one unit.
ClockTick ==
  /\ now + 1 \in Instants
  /\ now' = now + 1
  /\ UNCHANGED <<lateVars, poolVars, aggVars, jobVars, revVars, zone, files, lastOp>>

NextCache ==
  \/ \E date \in DatesAt(zone), data \in Summaries, ioOK \in BOOLEAN :
       CacheSet(date, data, ioOK)
  \/ \E date \in DatesAt(zone) : CacheShouldCache(date)
  \/ \E date \in DatesAt(zone) : CacheGet(date)
  \/ CacheClear
  \/ ClockTick

\* The cache under any sequence of calls, in each zone, as time passes.
SpecCache == InitCache /\ [][NextCache]_vars

----------------------------------------------------------------------------
(* The sum command (cmd/sum.go 35-238) *)

\* Values of the --output, --since and --date flags: valid ones, the empty
\* default, and one that does not parse.  "0001-01-02" is the day after
\* Go's zero time, day 1 of the clock.
SumFormats == {"text", "xml"}
SumSinceFlags == {"", "1d", "soon"}
SumDateFlags == {"", "today", "yesterday", "0001-01-02", "someday"}

\* sum.go 37-39: the output formats accepted.
ValidFormat(format) == format \in {"text", "json", "tui"}

\* sum.go 263-293: parseSinceDuration accepts number + unit; one day back
\* is now.AddDate(0, 0, -1), in the local zone.
SinceParses(since) == since = "1d"
parseSinceDuration(since) == [t |-> now - UnitsPerDay, loc |-> zone]

\* sum.go 250-261: parseDate; today and yesterday are local times of day,
\* a YYYY-MM-DD date is parsed by time.Parse as a UTC midnight.
DateParses(date) == date \in {"today", "yesterday", "0001-01-02"}
parseDate(date) ==
  CASE date = "today" -> Now
    [] date = "yesterday" -> [t |-> now - UnitsPerDay, loc |-> zone]
    [] OTHER -> [t |-> UnitsPerDay, loc |-> 0]

\* Variant of CacheConsulted: since-based queries use the cache as well.
CacheConsultedAlways(since, date) == ShouldCache(date)

\* sum.go 89, 201: the cache is used for date-based queries on dates
\* ShouldCache accepts.
CacheConsulted(since, date) == ~since /\ ShouldCache(date)

\* sum.go 134-172: the aggregator holds the providers enabled in the
\* configuration, in the order GitHub, JIRA, ...; a provider enabled
\* without credentials is not configured.
EnabledProviders ==
  {<<>>,
   <<[name |-> "github", configured |-> TRUE]>>,
   <<[name |-> "github", configured |-> TRUE],
     [name |-> "jira", configured |-> FALSE]>>}

\* What a provider can answer in a run of the command.
SumAnswers ==
  {[err |-> TRUE, activities |-> <<>>], [err |-> FALSE, activities |-> <<1>>]}

\* sum.go 184: what GetSummaryByTimeRange can return: an error, or a
\* Summary for the from time.
RangeAnswers ==
  {[err |-> TRUE, activities |-> <<>>], [err |-> FALSE, activities |-> <<1>>]}

\* Largest number of runs of the command explored.
MaxSumRuns == 2

\* The errors RunE returns.
ErrFormat == "invalid output format"
ErrBothFlags == "cannot use both --since and --date flags"
ErrSince == "invalid since format"
ErrDate == "invalid date format"
ErrCacheInit == "failed to initialize cache"
ErrConfig == "failed to load config"
ErrSummary == "failed to get activity summary"

\* RunE returns the error.
SumFails(err) ==
  /\ sumPC' = "returned"
  /\ sumOut' = [shown |-> NilSummary, from |-> "none", err |-> err]

\* The variables no step of the sum command touches.
sumFrame == <<poolVars, jobVars, revVars, rateVars, seqVars, tuiVars>>

InitSum ==
  /\ PoolEntry({0}, FALSE)
  /\ AggIdle /\ JobIdle /\ RevIdle /\ LateIdle
  /\ now = UnitsPerDay
  /\ zone \in Zones
  /\ files = {}
  /\ lastOp = NoOp

\* sum.go 36-80: the flags are checked and the date of the query is made.
SumFlags(format, since, date) ==
  /\ sumPC = "idle" /\ sumRuns < MaxSumRuns
  /\ sumRuns' = sumRuns + 1
  /\ LET s == IF since = "" /\ date = "" THEN "1d" ELSE since
     IN IF ~ValidFormat(format)
          THEN /\ SumFails(ErrFormat)
               /\ UNCHANGED <<sumFlags, usingSince, targetDate>>
          ELSE IF since # "" /\ date # ""
            THEN /\ SumFails(ErrBothFlags)
                 /\ UNCHANGED <<sumFlags, usingSince, targetDate>>
            ELSE /\ sumFlags' = [since |-> s, date |-> date]
                 /\ usingSince' = (s # "")
                 /\ IF s # ""
                      THEN IF SinceParses(s)
                             THEN /\ targetDate' = parseSinceDuration(s)
                                  /\ sumPC' = "cache"
                                  /\ UNCHANGED sumOut
                             ELSE /\ SumFails(ErrSince)
                                  /\ UNCHANGED targetDate
                      ELSE IF DateParses(date)
                             THEN /\ targetDate' = parseDate(date)
                                  /\ sumPC' = "cache"
                                  /\ UNCHANGED sumOut
                             ELSE /\ SumFails(ErrDate)
                                  /\ UNCHANGED targetDate
  /\ UNCHANGED <<sumFrame, aggVars, cacheVars, sumSummary, sumLog>>

\* sum.go 83-125: the cache is made and, for a date-based query on a date
\* ShouldCache accepts, read; a summary found is rendered and RunE returns.
\* homeOK: os.UserHomeDir succeeds; readOK: the file can be read and
\* decoded.
SumCache(homeOK, readOK) ==
  /\ sumPC = "cache"
  /\ LET name == getFilename(targetDate)
         found == {f \in files : f.name = name}
         asked == IF usingSince THEN <<>> ELSE <<"ShouldCache">>
     IN IF ~homeOK
          THEN /\ readOK
               /\ SumFails(ErrCacheInit)
               /\ UNCHANGED sumLog
          ELSE IF ~CacheConsulted(usingSince, targetDate)
            THEN /\ readOK
                 /\ sumPC' = "config"
                 /\ sumLog' = sumLog \o asked
                 /\ UNCHANGED sumOut
            ELSE IF found = {}
              THEN /\ readOK
                   /\ sumPC' = "config"
                   /\ sumLog' = sumLog \o asked \o <<"Get: nil">>
                   /\ UNCHANGED sumOut
              ELSE IF ~readOK
                THEN /\ sumPC' = "config"
                     /\ sumLog' = sumLog \o asked \o <<"Get: error">>
                     /\ UNCHANGED sumOut
                ELSE /\ sumPC' = "returned"
                     /\ sumLog' = sumLog \o asked \o <<"Get: summary">>
                     /\ sumOut' = [shown |-> (CHOOSE f \in found : TRUE).data,
                                    from |-> "cache", err |-> NoErr]
  /\ UNCHANGED <<sumFrame, aggVars, cacheVars, sumFlags, usingSince,
                 targetDate, sumSummary, sumRuns>>

\* sum.go 128-172: the configuration is loaded and the aggregator is made
\* of the enabled providers.
SumConfig(cfgOK, enabled) ==
  /\ sumPC = "config"
  /\ IF ~cfgOK
       THEN /\ enabled = <<>>
            /\ SumFails(ErrConfig)
            /\ UNCHANGED providers
       ELSE /\ providers' = enabled
            /\ sumPC' = "fetch"
            /\ UNCHANGED sumOut
  /\ UNCHANGED <<sumFrame, cacheVars, aggPC, aggCall, aggIdx, allActivities,
                 aggCalls, summary, aggErr, sumFlags, usingSince, targetDate,
                 sumSummary, sumLog, sumRuns>>

\* sum.go 182-187: a since-based query calls GetSummaryByTimeRange.
SumRange(answer) ==
  /\ sumPC = "fetch" /\ usingSince
  /\ sumLog' = Append(sumLog, "GetSummaryByTimeRange")
  /\ IF answer.err
       THEN /\ SumFails(ErrSummary)
            /\ UNCHANGED sumSummary
       ELSE /\ sumSummary' = [nil |-> FALSE, Date |-> targetDate,
                               Activities |-> answer.activities]
            /\ sumPC' = "store"
            /\ UNCHANGED sumOut
  /\ UNCHANGED <<sumFrame, aggVars, cacheVars, sumFlags, usingSince,
                 targetDate, sumRuns>>

\* sum.go 188-193: a date-based query calls GetSummaryWithVerbose.
SumCallAggregator(verbose) ==
  /\ sumPC = "fetch" /\ ~usingSince /\ aggPC = "idle"
  /\ BeginSummary([fn |-> "GetSummaryWithVerbose", verbose |-> verbose],
                  targetDate)

\* sum.go 190-193: GetSummaryWithVerbose has returned.
SumSummary ==
  /\ sumPC = "fetch" /\ ~usingSince /\ AggReturned
  /\ sumLog' = Append(sumLog, "GetSummaryWithVerbose")
  /\ IF aggErr # NoErr
       THEN /\ SumFails(ErrSummary)
            /\ UNCHANGED sumSummary
       ELSE /\ sumSummary' = summary
            /\ sumPC' = "store"
            /\ UNCHANGED sumOut
  /\ UNCHANGED <<sumFrame, aggVars, cacheVars, sumFlags, usingSince,
                 targetDate, sumRuns>>

\* sum.go 201-237: the summary of a date-based query on a date ShouldCache
\* accepts is handed to Set, whose failure is only reported; the summary is
\* rendered and RunE returns nil.
SumStore(ioOK) ==
  /\ sumPC = "store"
  /\ LET asked == IF usingSince THEN <<>> ELSE <<"ShouldCache">>
     IN IF ~CacheConsulted(usingSince, targetDate)
          THEN /\ ioOK
               /\ sumLog' = sumLog \o asked
               /\ UNCHANGED files
          ELSE IF SetSkips(targetDate)
            THEN /\ ioOK
                 /\ sumLog' = sumLog \o asked \o <<"Set: skipped">>
                 /\ UNCHANGED files
            ELSE IF ~ioOK
              THEN /\ sumLog' = sumLog \o asked \o <<"Set: error">>
                   /\ UNCHANGED files
              ELSE /\ sumLog' = sumLog \o asked \o <<"Set: written">>
                   /\ files' = WriteFile(files, getFilename(targetDate),
                                          sumSummary)
  /\ sumOut' = [shown |-> sumSummary, from |-> "providers", err |-> NoErr]
  /\ sumPC' = "returned"
  /\ UNCHANGED <<sumFrame, aggVars, now, zone, lastOp, sumFlags, usingSince,
                 targetDate, sumSummary, sumRuns>>

\* The process ends; the next run of the command starts from nothing but
\* the files of the cache.
SumExit ==
  /\ sumPC = "returned"
  /\ sumPC' = "idle"
  /\ sumFlags' = NoFlags
  /\ usingSince' = FALSE
  /\ targetDate' = NoDate
  /\ sumSummary' = NilSummary
  /\ sumOut' = NoOutput
  /\ sumLog' = <<>>
  /\ providers' = <<>>
  /\ aggPC' = "idle"
  /\ aggCall' = NoCall
  /\ aggIdx' = 0
  /\ allActivities' = <<>>
  /\ aggCalls' = <<>>
  /\ summary' = NilSummary
  /\ aggErr' = "none"
  /\ UNCHANGED <<sumFrame, cacheVars, sumRuns>>

NextSum ==
  \/ \E format \in SumFormats, since \in SumSinceFlags, date \in SumDateFlags :
       SumFlags(format, since, date)
  \/ \E homeOK \in BOOLEAN, readOK \in BOOLEAN : SumCache(homeOK, readOK)
  \/ \E cfgOK \in BOOLEAN, enabled \in EnabledProviders :
       SumConfig(cfgOK, enabled)
  \/ \E answer \in RangeAnswers : SumRange(answer)
  \/ \E verbose \in BOOLEAN : SumCallAggregator(verbose)
  \/ \E result \in SumAnswers : sumPC = "fetch" /\ AggStep(result)
  \/ sumPC = "fetch" /\ AggReturn
  \/ SumSummary
  \/ \E ioOK \in BOOLEAN : SumStore(ioOK)
  \/ SumExit
  \/ sumPC \in {"idle", "fetch"} /\ ClockTick

\* Runs of the sum command one after the other over one cache directory,
\* in each zone; time passes between the runs and while a run waits for
\* the providers.
SpecSum == InitSum /\ [][NextSum]_vars

----------------------------------------------------------------------------
(* The reviews and todo TUI models (internal/tui/reviews.go, todo.go) *)

\* Longest list of items explored.
MaxTuiItems == 3

\* The URL of an item: empty, or some address.
ItemURLs == {"", "https://example.org/1"}

\* allItems after buildItemsList, as far as Update reads it: the URL of
\* each item.  Go index i is position i + 1.
ItemLists == UNION {[1..n -> ItemURLs] : n \in 0..MaxTuiItems}

\* Key messages (msg.String()) and the heights of window-size messages.
Keys ==
  {"up", "k", "down", "j", "home", "g", "end", "G", "enter", " ", "q",
   "ctrl+c", "x"}
WindowHeights == {2, 5, 6}

\* common.go 236-241: max.
max(a, b) == IF a > b THEN a ELSE b

\* common.go 205-214: ClampCursor.
ClampCursor(cursor, lo, hi) ==
  IF cursor < lo THEN lo
  ELSE IF cursor > hi THEN hi
  ELSE cursor

\* reviews.go 134-150: updateLeftViewport, the offset it leaves.
updateLeftViewport(cursor, offset, height, total) ==
  IF height <= 0 THEN offset
  ELSE LET o == IF cursor < offset THEN cursor
                ELSE IF cursor >= offset + height
                  THEN cursor - height + 1
                  ELSE offset
       IN min(max(0, o), max(0, total - height))

\* reviews.go 54-61, todo.go 30-40: the model as constructed; the todo
\* model has no viewport.
InitTUI ==
  /\ PoolEntry({0}, FALSE)
  /\ AggIdle /\ JobIdle /\ CacheIdle /\ RevIdle
  /\ ticks = 0 /\ prevCall = NoPrevCall /\ SumIdle
  /\ tuiKind \in {"reviews", "todo"}
  /\ allItems \in ItemLists
  /\ selectedItem = 0
  /\ vpHeight = IF tuiKind = "reviews" THEN 20 ELSE 0
  /\ vpOffset = 0
  /\ tuiCmd = "none"
  /\ tuiReads = {}
  /\ tuiPanic = FALSE

\* The variables no Update touches.
tuiFrame ==
  <<poolVars, aggVars, jobVars, cacheVars, revVars, rateVars, seqVars,
    sumVars, tuiKind, allItems>>

\* The program runs: it has not quit and has not panicked.
TuiRunning == tuiKind # "none" /\ tuiCmd # "quit" /\ ~tuiPanic

\* reviews.go 100-106, todo.go 84-87: tea.WindowSizeMsg.
UpdateWindowSize(height) ==
  /\ TuiRunning
  /\ IF tuiKind = "reviews"
       THEN /\ vpHeight' = height - 4
            /\ vpOffset' = updateLeftViewport(selectedItem, vpOffset,
                                               height - 4, Len(allItems))
       ELSE UNCHANGED <<vpHeight, vpOffset>>
  /\ tuiCmd' = "none"
  /\ tuiReads' = {}
  /\ UNCHANGED <<tuiFrame, selectedItem, tuiPanic>>

\* The cursor is set and, in the reviews model, the viewport follows.
MoveCursor(cursor) ==
  /\ selectedItem' = cursor
  /\ vpOffset' = IF tuiKind = "reviews"
                   THEN updateLeftViewport(cursor, vpOffset, vpHeight,
                                           Len(allItems))
                   ELSE vpOffset
  /\ tuiCmd' = "none"
  /\ tuiReads' = {}
  /\ UNCHANGED <<vpHeight, tuiPanic>>

\* reviews.go 125-130, todo.go 102-107: enter or space; allItems is read
\* at selectedItem when selectedItem < len(allItems), and an index outside
\* the slice panics.
OpenSelected ==
  /\ IF selectedItem < Len(allItems)
       THEN /\ tuiReads' = {selectedItem}
            /\ IF selectedItem < 0
                 THEN /\ tuiPanic' = TRUE
                      /\ tuiCmd' = "none"
                 ELSE /\ tuiPanic' = FALSE
                      /\ tuiCmd' = IF allItems[selectedItem + 1] # ""
                                     THEN "exec" ELSE "none"
       ELSE /\ tuiReads' = {}
            /\ tuiCmd' = "none"
            /\ UNCHANGED tuiPanic
  /\ UNCHANGED <<selectedItem, vpHeight, vpOffset>>

\* reviews.go 107-131, todo.go 88-108: tea.KeyMsg.
UpdateKey(key) ==
  /\ TuiRunning
  /\ CASE key \in {"ctrl+c", "q"} ->
            /\ tuiCmd' = "quit"
            /\ tuiReads' = {}
            /\ UNCHANGED <<selectedItem, vpHeight, vpOffset, tuiPanic>>
       [] key \in {"up", "k"} ->
            MoveCursor(ClampCursor(selectedItem - 1, 0, Len(allItems) - 1))
       [] key \in {"down", "j"} ->
            MoveCursor(ClampCursor(selectedItem + 1, 0, Len(allItems) - 1))
       [] key \in {"home", "g"} -> MoveCursor(0)
       [] key \in {"end", "G"} -> MoveCursor(Len(allItems) - 1)
       [] key \in {"enter", " "} -> OpenSelected
       [] OTHER ->
            /\ tuiCmd' = "none"
            /\ tuiReads' = {}
            /\ UNCHANGED <<selectedItem, vpHeight, vpOffset, tuiPanic>>
  /\ UNCHANGED tuiFrame

NextTUI ==
  \/ \E height \in WindowHeights : UpdateWindowSize(height)
  \/ \E key \in Keys : UpdateKey(key)

\* A reviews or todo model under any sequence of messages.
SpecTUI == InitTUI /\ [][NextTUI]_vars

----------------------------------------------------------------------------
(* getGitHubReviews (cmd/reviews.go 102-174) *)

\* Longest list a listing call returns.
MaxListed == 2

\* reviews.go 108, 114: the errors getGitHubReviews returns.
ErrUserRequests == "failed to get user review requests"
ErrTeamRequests == "failed to get team review requests"

\* The team's list of length n: candidates taken from the end of the pool.
TeamList(n) ==
  [i \in 1..n |-> Candidate(NumCandidates - ((i - 1) % NumCandidates))]

\* What GetUserReviewRequests and GetTeamReviewRequests can return.
UserAnswers ==
  {[err |-> TRUE, list |-> <<>>]} \cup
  {[err |-> FALSE, list |-> InputList(n)] : n \in 0..MaxListed}
TeamAnswers ==
  {[err |-> TRUE, list |-> <<>>]} \cup
  {[err |-> FALSE, list |-> TeamList(n)] : n \in 0..MaxListed}

\* enrichPRsConcurrently is not being called.
PoolNotCalled ==
  /\ prs = <<>>
  /\ ctxDone = FALSE
  /\ mainPC = "nocall"
  /\ poolStarted = FALSE
  /\ jobs = <<>>
  /\ jobsClosed = FALSE
  /\ sendIdx = 0
  /\ idle = 0
  /\ busy = {}
  /\ exited = 0
  /\ results = <<>>
  /\ reviewItems = <<>>
  /\ collected = 0
  /\ successCount = 0
  /\ ret = <<>>
  /\ tickerOn = FALSE
  /\ tickerC = 0
  /\ elapsed = 0
  /\ sinceDispatch = rateLimitDelay
  /\ outcome = <<>>
  /\ written = <<>>
  /\ calls = <<>>

\* reviews.go 139, 163: enrichPRsConcurrently is called on a list.
PoolCall(list) ==
  /\ prs' = list
  /\ mainPC' = "start"
  /\ poolStarted' = FALSE
  /\ jobs' = <<>>
  /\ jobsClosed' = FALSE
  /\ sendIdx' = 0
  /\ idle' = 0
  /\ busy' = {}
  /\ exited' = 0
  /\ results' = <<>>
  /\ reviewItems' = <<>>
  /\ collected' = 0
  /\ successCount' = 0
  /\ ret' = <<>>
  /\ tickerOn' = FALSE
  /\ tickerC' = 0
  /\ elapsed' = 0
  /\ sinceDispatch' = rateLimitDelay
  /\ outcome' = [i \in 0..(Len(list) - 1) |-> "none"]
  /\ written' = [i \in 0..(Len(list) - 1) |-> 0]
  /\ calls' = [i \in 0..(Len(list) - 1) |-> NoCalls]
  /\ UNCHANGED ctxDone

\* Variant of ConvertOnly: the list is made and its items are left zero.
ConvertOnlyMade(list) == [i \in 1..Len(list) |-> ZeroItem]

\* reviews.go 125-136, 149-160: the fast path converts the candidates.
ConvertOnly(list) == [i \in 1..Len(list) |-> BaseItem(list[i])]

\* Variant of AfterUserListing: the error of the listing is ignored.
AfterUserListingContinue(ok) == "listTeam"

\* reviews.go 106-109: after GetUserReviewRequests the call goes on to the
\* team listing, or returns when the listing failed.
AfterUserListing(ok) == IF ok THEN "listTeam" ELSE "returned"

\* reviews.go 112-115: the same after GetTeamReviewRequests.
AfterTeamListing(ok) == IF ok THEN "user" ELSE "returned"

InitReviews ==
  /\ AggIdle /\ JobIdle /\ CacheIdle /\ LateIdle /\ PoolNotCalled
  /\ revPC = "listUser"
  /\ skipDetails \in BOOLEAN
  /\ userRequests = <<>>
  /\ teamRequests = <<>>
  /\ reviews = NoReviews
  /\ revErr = "none"
  /\ revLog = <<>>

\* reviews.go 106-109: GetUserReviewRequests returns.
RevListUser(answer) ==
  /\ revPC = "listUser"
  /\ revLog' = Append(revLog, [step |-> "GetUserReviewRequests",
                               ok |-> ~answer.err])
  /\ userRequests' = answer.list
  /\ revErr' = IF answer.err THEN ErrUserRequests ELSE revErr
  /\ revPC' = AfterUserListing(~answer.err)
  /\ UNCHANGED <<lateVars, poolVars, aggVars, jobVars, cacheVars, skipDetails,
                 teamRequests, reviews>>

\* reviews.go 112-115: GetTeamReviewRequests returns.
RevListTeam(answer) ==
  /\ revPC = "listTeam"
  /\ revLog' = Append(revLog, [step |-> "GetTeamReviewRequests",
                               ok |-> ~answer.err])
  /\ teamRequests' = answer.list
  /\ revErr' = IF answer.err THEN ErrTeamRequests ELSE revErr
  /\ revPC' = AfterTeamListing(~answer.err)
  /\ UNCHANGED <<lateVars, poolVars, aggVars, jobVars, cacheVars, skipDetails,
                 userRequests, reviews>>

\* The list of candidates of a kind, and the next position after it.
RequestsOf(kind) == IF kind = "user" THEN userRequests ELSE teamRequests
AfterItems(kind) == IF kind = "user" THEN "team" ELSE "done"

\* reviews.go 118-140, 142-164: the items of one kind are made: converted
\* on the fast path, else enrichPRsConcurrently is called.
RevItems(kind) ==
  /\ revPC = kind
  /\ IF skipDetails
       THEN /\ reviews' =
                 IF kind = "user"
                   THEN [reviews EXCEPT !.UserRequests = ConvertOnly(userRequests)]
                   ELSE [reviews EXCEPT !.TeamRequests = ConvertOnly(teamRequests)]
            /\ revLog' = Append(revLog, [step |-> "convert " \o kind, ok |-> TRUE])
            /\ revPC' = AfterItems(kind)
            /\ UNCHANGED poolVars
       ELSE /\ PoolCall(RequestsOf(kind))
            /\ revLog' = Append(revLog, [step |-> "enrich " \o kind, ok |-> TRUE])
            /\ revPC' = kind \o "Pool"
            /\ UNCHANGED reviews
  /\ UNCHANGED <<lateVars, aggVars, jobVars, cacheVars, skipDetails, userRequests,
                 teamRequests, revErr>>

\* Variant of PoolReturned: the caller goes on once the results are in.
PoolReturnedAtWait == mainPC \in {"wait", "returned"}

\* reviews.go 139, 163, 342: the call of enrichPRsConcurrently has returned.
PoolReturned == mainPC = "returned"

\* reviews.go 139, 163: enrichPRsConcurrently has returned its list.
RevPoolReturns(kind) ==
  /\ revPC = kind \o "Pool" /\ PoolReturned
  /\ reviews' = IF kind = "user"
                  THEN [reviews EXCEPT !.UserRequests = ret]
                  ELSE [reviews EXCEPT !.TeamRequests = ret]
  /\ revPC' = AfterItems(kind)
  /\ UNCHANGED <<lateVars, poolVars, aggVars, jobVars, cacheVars, skipDetails,
                 userRequests, teamRequests, revErr, revLog>>

\* reviews.go 173: return reviews, nil.
RevReturn ==
  /\ revPC = "done"
  /\ revErr' = NoErr
  /\ revPC' = "returned"
  /\ UNCHANGED <<lateVars, poolVars, aggVars, jobVars, cacheVars, skipDetails,
                 userRequests, teamRequests, reviews, revLog>>

NextReviews ==
  \/ \E answer \in UserAnswers : RevListUser(answer)
  \/ \E answer \in TeamAnswers : RevListTeam(answer)
  \/ \E kind \in {"user", "team"} : RevItems(kind)
  \/ \E kind \in {"user", "team"} : RevPoolReturns(kind)
  \/ RevReturn
  \/ NextLoad

\* One call of getGitHubReviews, with and without skipDetails, every
\* listing answer and every detail call outcome free.
SpecReviews == InitReviews /\ [][NextReviews]_vars

----------------------------------------------------------------------------
(* Properties of the enrichment pool *)

\* The fully enriched item of a candidate (both detail calls succeeded).
EnrichedItem(pr) ==
  [TodoItem |-> TodoItemOf(pr), CIStatus |-> RemoteCIStatus(pr),
   PRDetails |-> RemotePRDetails(pr)]

Returned == mainPC = "returned"

Indices == 0..(Len(prs) - 1)

\* C1: whatever the detail calls did, the list enrichPRsConcurrently
\* returns has exactly as many items as the input list.
C1_ReturnsExactlyN == Returned => Len(ret) = Len(prs)

\* C1 witness: a call on two or more candidates returned, with one item
\* enriched and another one failed.
C1_Witness ==
  /\ Returned /\ Len(prs) >= 2
  /\ \E i, j \in Indices : outcome[i] = NoErr /\ outcome[j] \notin {NoErr, "none"}

\* C2: each position written by the collector, and each position of the
\* returned list, carries the six identity fields of the input candidate
\* at that position, whatever order the results arrived in.
C2_IdentityPreserved ==
  /\ \A i \in 1..Len(reviewItems) :
       reviewItems[i] # ZeroItem =>
         i <= Len(prs) /\ reviewItems[i].TodoItem = TodoItemOf(prs[i])
  /\ Returned =>
       /\ Len(ret) = Len(prs)
       /\ \A i \in 1..Len(prs) : ret[i].TodoItem = TodoItemOf(prs[i])

\* C2 witness: the collector has written a later position while an earlier
\* one is still unwritten (results arrived out of input order).
C2_Witness ==
  /\ mainPC = "collect"
  /\ \E i, j \in 1..Len(reviewItems) :
       i < j /\ reviewItems[i] = ZeroItem /\ reviewItems[j] # ZeroItem

\* C3: the number of jobs whose detail calls are in flight never exceeds
\* min(5, N).
C3_InFlightBounded ==
  Cardinality(InFlight) <= min(maxWorkers, Len(prs))

\* C3 witness: five jobs are in flight while a sixth waits in the queue.
C3_Witness ==
  /\ Len(prs) > maxWorkers
  /\ Cardinality(InFlight) = maxWorkers
  /\ Len(jobs) > 0

\* C4: any two dispatches of one call are at least rateLimitDelay apart:
\* a step that dispatches a job, other than the first, happens no sooner
\* than rateLimitDelay after the previous dispatch.
C4_DispatchSpacing ==
  [][(Dispatched' > Dispatched /\ Dispatched >= 1)
       => sinceDispatch >= rateLimitDelay]_vars

\* C5: the collected item of an index whose detail calls failed is the
\* fallback item (identity fields, empty CIStatus and PRDetails); the item
\* of every index depends on that index's candidate and outcome alone, and
\* the call still returns all items.
C5_FallbackIsolated ==
  /\ \A i \in Indices :
       (i + 1 <= Len(reviewItems) /\ reviewItems[i + 1] # ZeroItem) =>
          reviewItems[i + 1] =
            IF outcome[i] = NoErr THEN EnrichedItem(prs[i + 1])
                                  ELSE BaseItem(prs[i + 1])
  /\ Returned =>
       /\ Len(ret) = Len(prs)
       /\ \A i \in Indices :
            /\ outcome[i] # "none"
            /\ ret[i + 1] = IF outcome[i] = NoErr THEN EnrichedItem(prs[i + 1])
                                                  ELSE BaseItem(prs[i + 1])

\* C5 witness: the call returned; one item failed after its check-status
\* call had succeeded, and another item was fully enriched.
C5_Witness ==
  /\ Returned
  /\ \E i, j \in Indices :
       /\ outcome[i] = ErrDetails /\ ret[i + 1] = BaseItem(prs[i + 1])
       /\ outcome[j] = NoErr /\ ret[j + 1] = EnrichedItem(prs[j + 1])

\* C6: on an empty list the call goes from its start straight to its
\* return of an empty list: no ticker, worker or sender exists, no job is
\* sent and no detail call is made.
C6_EmptyReturnsImmediately ==
  Len(prs) = 0 =>
    /\ mainPC \in {"start", "returned"}
    /\ ~poolStarted /\ ~tickerOn /\ tickerC = 0
    /\ idle = 0 /\ busy = {} /\ exited = 0
    /\ sendIdx = 0 /\ jobs = <<>> /\ results = <<>>
    /\ ret = <<>>

\* C6 witness: a call on the empty list has returned.
C6_Witness == Len(prs) = 0 /\ Returned

\* C7: a call whose context is done at its return still returns N items in
\* input order, each the enriched or the fallback item of its candidate;
\* nothing is left queued, held or uncollected.
C7_CancelledStillReturnsAll ==
  (Returned /\ ctxDone) =>
    /\ Len(ret) = Len(prs)
    /\ \A i \in 1..Len(prs) :
         ret[i] \in {EnrichedItem(prs[i]), BaseItem(prs[i])}
    /\ jobs = <<>> /\ busy = {} /\ results = <<>>
    /\ collected = Len(prs)

\* C7 witness: the context was cancelled during a call that returned: the
\* first item had been enriched before, the last one fell back.
C7_Witness ==
  /\ Returned /\ ctxDone /\ Len(prs) >= 2
  /\ ret[1] = EnrichedItem(prs[1])
  /\ ret[Len(prs)] = BaseItem(prs[Len(prs)])

----------------------------------------------------------------------------
(* Properties of the aggregator *)

\* Positions of the configured providers, in registration order.
RECURSIVE ConfiguredFrom(_)
ConfiguredFrom(i) ==
  IF i > Len(providers) THEN <<>>
  ELSE (IF providers[i].configured THEN <<i>> ELSE <<>>) \o ConfiguredFrom(i + 1)

\* Lists returned by the successful calls among the first k calls, joined.
RECURSIVE Joined(_)
Joined(k) ==
  IF k = 0 THEN <<>>
  ELSE Joined(k - 1) \o
       (IF aggCalls[k].result.err THEN <<>> ELSE aggCalls[k].result.activities)

\* Number of items the successful calls among the first k calls returned.
RECURSIVE ItemsBefore(_)
ItemsBefore(k) ==
  IF k = 0 THEN 0
  ELSE ItemsBefore(k - 1) +
       (IF aggCalls[k].result.err THEN 0 ELSE Len(aggCalls[k].result.activities))

AggDone == aggPC = "done"

\* C8: when a call has returned, every configured provider was queried, in
\* registration order, also after a provider that failed; each successful
\* provider's items are in the Summary, as returned, after the items of the
\* successful providers before it, and a failed provider adds none.
C8_FailureIsolated ==
  AggDone =>
    /\ [k \in 1..Len(aggCalls) |-> aggCalls[k].provider] = ConfiguredFrom(1)
    /\ Len(summary.Activities) = ItemsBefore(Len(aggCalls))
    /\ \A k \in 1..Len(aggCalls) :
         ~aggCalls[k].result.err =>
           SubSeq(summary.Activities, ItemsBefore(k - 1) + 1, ItemsBefore(k))
             = aggCalls[k].result.activities

\* C8 witness: a call returned in which a provider failed between two
\* providers that returned items.
C8_Witness ==
  /\ AggDone /\ Len(aggCalls) = 3
  /\ ~aggCalls[1].result.err /\ aggCalls[1].result.activities # <<>>
  /\ aggCalls[2].result.err
  /\ ~aggCalls[3].result.err /\ aggCalls[3].result.activities # <<>>

\* C9: GetActivities is only ever invoked on configured providers, and a
\* call over providers none of which is configured returns an empty
\* Summary and a nil error.
C9_UnconfiguredSkipped ==
  /\ \A k \in 1..Len(aggCalls) : providers[aggCalls[k].provider].configured
  /\ AggDone =>
       /\ aggErr = NoErr
       /\ (\A i \in 1..Len(providers) : ~providers[i].configured)
            => summary.Activities = <<>>
       /\ Len(aggCalls) = Cardinality({i \in 1..Len(providers) :
                                         providers[i].configured})

\* C9 witness: a call returned that passed an unconfigured provider
\* registered between two configured ones.
C9_Witness ==
  /\ AggDone /\ Len(providers) = 3
  /\ providers[1].configured /\ ~providers[2].configured
  /\ providers[3].configured
  /\ Len(aggCalls) = 2

\* C10: the Summary's list is the lists returned by the successful calls,
\* joined in call order, with nothing reordered or removed.
C10_Concatenation ==
  AggDone => summary.Activities = Joined(Len(aggCalls))

\* C10 witness: two providers returned the same item, the second one in
\* descending order, and the Summary holds all of it.
C10_Witness ==
  /\ AggDone /\ Len(aggCalls) = 2
  /\ aggCalls[1].result.activities = <<1>>
  /\ aggCalls[2].result.activities = <<2, 1>>
  /\ summary.Activities = <<1, 2, 1>>

----------------------------------------------------------------------------
(* Further properties of the aggregator and of the enrichment pool *)

\* C11: a call of GetSummary or GetSummaryWithVerbose that returned has
\* returned a nil error and a non-nil Summary for the requested date,
\* whatever the providers did; when no GetActivities call succeeded (every
\* provider unconfigured or failing) the Summary has no activities.
C11_SummaryNeverFails ==
  AggDone =>
    /\ aggErr = NoErr
    /\ ~summary.nil
    /\ summary.Date = aggCall.date
    /\ (\A k \in 1..Len(aggCalls) : aggCalls[k].result.err)
         => summary.Activities = <<>>

\* C11 witness: a call returned over one unconfigured provider and two
\* configured providers that both failed.
C11_Witness ==
  /\ AggDone /\ Len(providers) = 3 /\ Len(aggCalls) = 2
  /\ \E i \in 1..3 : ~providers[i].configured
  /\ aggCalls[1].result.err /\ aggCalls[2].result.err
  /\ ~summary.nil /\ summary.Activities = <<>>

\* The fields of an output.ReviewItem.
ReviewItemFields == {"TodoItem", "CIStatus", "PRDetails"}

C18_EachIndexWrittenOnce ==
  /\ \A i \in Indices : written[i] <= 1
  /\ Cardinality({i \in Indices : written[i] = 1}) = collected
  /\ poolStarted =>
       \A i \in Indices : written[i] = 0 => reviewItems[i + 1] = ZeroItem
  /\ Returned =>
       /\ collected = Len(prs)
       /\ \A i \in Indices : written[i] = 1

\* C18 witness: the collector has written the last position and not yet
\* the first one, each written position once.
C18_Witness ==
  /\ mainPC = "collect" /\ Len(prs) >= 2
  /\ written[Len(prs) - 1] = 1 /\ written[0] = 0
  /\ reviewItems[Len(prs)] # ZeroItem

\* C19: a job is dequeued at most once, its check-status call is made at
\* most once and only after the dequeue, its change-stats call at most once
\* and only after the check-status call; a job in the queue was never
\* dequeued before; once an index has its outcome, and when the call
\* returns, each of the three happened exactly once, failed calls included.
C19_EachJobOnce ==
  /\ \A i \in Indices :
       /\ calls[i].recv <= 1
       /\ calls[i].ci <= calls[i].recv
       /\ calls[i].details <= calls[i].ci
       /\ outcome[i] # "none" => calls[i] = [recv |-> 1, ci |-> 1, details |-> 1]
  /\ \A k \in 1..Len(jobs) : calls[jobs[k].index].recv = 0
  /\ \A k, l \in 1..Len(jobs) : jobs[k].index = jobs[l].index => k = l
  /\ Returned =>
       \A i \in Indices : calls[i] = [recv |-> 1, ci |-> 1, details |-> 1]

\* C19 witness: the call returned after a job whose two detail calls both
\* count once although the item failed in the first of them.
C19_Witness ==
  /\ Returned
  /\ \E i \in Indices :
       /\ outcome[i] = ErrCI
       /\ calls[i].ci = 1 /\ calls[i].details = 1 /\ calls[i].recv = 1

\* C20: when enrichPRsConcurrently has returned, all N results were
\* collected and every worker has exited; every job was sent, the job
\* queue is closed and empty, no worker holds a job or waits for one, and
\* no result is left in the results channel.
C20_ReturnsAfterAllDone ==
  Returned =>
    /\ collected = Len(prs)
    /\ exited = NumWorkers
    /\ idle = 0 /\ busy = {}
    /\ sendIdx = Len(prs) /\ jobs = <<>>
    /\ poolStarted => jobsClosed
    /\ results = <<>>

\* C20 witness: a call on two or more candidates has returned with its
\* queue closed and all of its workers gone.
C20_Witness ==
  /\ Returned /\ Len(prs) >= 2
  /\ jobsClosed /\ exited = Len(prs) /\ collected = Len(prs)

----------------------------------------------------------------------------
(* Properties of one job *)

\* enrichPRWithDetails has returned.
JobReturned == jPC \in {"returned", "reported"}

\* Both detail calls of the job succeeded.
JobBothOK == jCalls[1].ok /\ jCalls[2].ok

\* C15 as stated: when exactly one detail call of a candidate succeeded,
\* the item reported for the output list has the substructure of the
\* succeeding call populated.
C15_PartialItemInOutput ==
  jPC = "reported" =>
    /\ (jCalls[1].ok /\ ~jCalls[2].ok)
         => jResult.reviewItem.CIStatus = RemoteCIStatus(jPR)
    /\ (~jCalls[1].ok /\ jCalls[2].ok)
         => jResult.reviewItem.PRDetails = RemotePRDetails(jPR)

\* C15 amended: the item reported for the output list is all-or-nothing:
\* the fully enriched item when both detail calls succeeded, and the
\* fallback item, with both substructures empty, when either call failed;
\* a partially enriched item exists only as the value enrichPRWithDetails
\* returned to the worker.
C15_OutputAllOrNothing ==
  jPC = "reported" =>
    jResult.reviewItem =
      IF JobBothOK THEN EnrichedItem(jPR) ELSE BaseItem(jPR)

\* C15 witness: enrichPRWithDetails returned an item with its CI status
\* after its change-stats call failed, and the worker reported the
\* fallback item.
C15_Witness ==
  /\ jPC = "reported"
  /\ jCalls[1].ok /\ ~jCalls[2].ok
  /\ jRet.reviewItem.CIStatus = RemoteCIStatus(jPR)
  /\ jResult.reviewItem = BaseItem(jPR)

\* C16: when enrichPRWithDetails has returned, it has called GetPRCIStatus
\* and then GetPRDetails, once each, whatever the first returned; the item
\* it returned has the identity fields of the candidate and the
\* substructure of each call that succeeded, and when exactly one call
\* failed the returned error is that call's error.
C16_BothCallsPartialItem ==
  JobReturned =>
    /\ Len(jCalls) = 2
    /\ jCalls[1].op = "GetPRCIStatus" /\ jCalls[2].op = "GetPRDetails"
    /\ jRet.reviewItem.TodoItem = TodoItemOf(jPR)
    /\ jRet.reviewItem.CIStatus =
         IF jCalls[1].ok THEN RemoteCIStatus(jPR) ELSE ZeroCIStatus
    /\ jRet.reviewItem.PRDetails =
         IF jCalls[2].ok THEN RemotePRDetails(jPR) ELSE ZeroPRDetails
    /\ (jCalls[1].ok /\ ~jCalls[2].ok) => jRet.err = ErrDetails
    /\ (~jCalls[1].ok /\ jCalls[2].ok) => jRet.err = ErrCI

\* C16 witness: the check-status call failed, the change-stats call was
\* made and succeeded, and the returned item has the change stats.
C16_Witness ==
  /\ JobReturned
  /\ ~jCalls[1].ok /\ jCalls[2].ok
  /\ jRet.reviewItem.PRDetails = RemotePRDetails(jPR)
  /\ jRet.reviewItem.CIStatus = ZeroCIStatus
  /\ jRet.err = ErrCI

\* C17: the error enrichPRWithDetails returns, which is the outcome the
\* worker reports for the item, is the check-status error whenever that
\* call failed, the change-stats error when only that call failed, and nil
\* when both succeeded.
C17_FirstErrorReported ==
  /\ JobReturned =>
       jRet.err = IF ~jCalls[1].ok THEN ErrCI
                  ELSE IF ~jCalls[2].ok THEN ErrDetails ELSE NoErr
  /\ jPC = "reported" => jResult.err = jRet.err

\* C17 witness: both calls failed although the provider is configured and
\* the candidate complete, and the reported outcome is the check-status
\* error.
C17_Witness ==
  /\ jPC = "reported" /\ jConfigured /\ jPR.Repository # 0 /\ jPR.Number # 0
  /\ ~jCalls[1].ok /\ ~jCalls[2].ok
  /\ jResult.err = ErrCI

----------------------------------------------------------------------------
(* Properties of the cache and of getGitHubReviews *)

\* The calendar day it is at instant t in the Location of date d.
TodayOf(d, t) == CalendarDay([t |-> t, loc |-> d.loc])

\* C14: a Set call for a date whose calendar day is the day of the call or
\* a later one writes nothing and returns no error; ShouldCache answers
\* whether the date's calendar day is before the day of the call; so no
\* file of the cache is named after the current day or a later one.
C14_OnlyPastDatesCached ==
  /\ (lastOp.op = "Set"
        /\ CalendarDay(lastOp.date) >= TodayOf(lastOp.date, lastOp.now))
       => (~lastOp.changed /\ lastOp.err = NoErr)
  /\ lastOp.op = "ShouldCache" =>
       lastOp.answer = (CalendarDay(lastOp.date) < TodayOf(lastOp.date, lastOp.now))
  /\ \A f \in files :
       f.name < CalendarDay([t |-> now, loc |-> 0]) \/ f.name < CalendarDay(Now)

\* C13: when GetUserReviewRequests has failed, getGitHubReviews has
\* returned the "failed to get user review requests" error and empty
\* reviews, and the failed listing is the only step it performed: no team
\* listing, no conversion, no enrichPRsConcurrently call and no detail
\* call, with skipDetails set or not.
C13_UserListingFailureStops ==
  (Len(revLog) >= 1 /\ ~revLog[1].ok) =>
    /\ revPC = "returned"
    /\ revErr = ErrUserRequests
    /\ reviews = NoReviews
    /\ revLog = <<[step |-> "GetUserReviewRequests", ok |-> FALSE]>>
    /\ mainPC = "nocall" /\ ~poolStarted /\ busy = {} /\ calls = <<>>

\* C13 witness: a call without skipDetails returned after its user listing
\* failed.
C13_Witness ==
  /\ revPC = "returned" /\ ~skipDetails
  /\ revErr = ErrUserRequests
  /\ Len(revLog) = 1

----------------------------------------------------------------------------
(* Progress and rate of the enrichment pool *)

\* C21: under fair scheduling, with every detail call returning and the
\* ticker ticking, every call of enrichPRsConcurrently eventually returns,
\* and by then every job has its outcome, success or fallback.
C21_EventuallyReturns ==
  <>(Returned /\ \A i \in Indices : outcome[i] # "none")

\* C21 witness: a call on the longest list has returned with every job
\* completed, one of them enriched and one fallen back.
C21_Witness ==
  /\ Returned /\ Len(prs) >= 2
  /\ \A i \in Indices : outcome[i] # "none"
  /\ \E i, j \in Indices : outcome[i] = NoErr /\ outcome[j] = ErrDetails
  /\ exited = NumWorkers /\ jobsClosed

\* C22: at every moment the number of jobs dispatched so far is at most
\* the number of ticks the one ticker of the pool has emitted, whatever the
\* number of workers: the k-th dispatch does not happen before k rate
\* intervals have passed; and a call on N candidates that has returned has
\* seen at least N - 1 intervals pass.
C22_DispatchedWithinTicks ==
  /\ Dispatched <= ticks
  /\ Returned => ticks >= Len(prs) - 1

\* C22 witness: three workers hold jobs; two of them passed the gate with
\* the two ticks emitted so far, the third waits for the next tick.
C22_Witness ==
  /\ Len(prs) >= 3 /\ Cardinality(busy) = 3
  /\ Dispatched = 2 /\ ticks = 2 /\ tickerC = 0
  /\ \E w \in busy : w.pc = "tick"

\* C23 as claimed: no worker holds a dequeued job while it is still waiting
\* for a permit (the permit comes first, the job second).
C23_PermitBeforeJob ==
  \A w \in busy : ~(w.pc = "tick" /\ tickerC = 0)

\* C23 amended: a worker takes the job first and the permit second. A
\* worker waiting for a permit holds the job it dequeued, for which no
\* permit has been taken yet; a worker in its detail calls holds a job
\* dequeued once and gated once; no permit is ever taken for a job that has
\* not been dequeued.
C23_JobBeforePermit ==
  /\ \A w \in busy :
       /\ w.pc = "tick" =>
            calls[w.job.index].recv = 1 /\ calls[w.job.index].ci = 0
       /\ w.pc \in {"ci", "details"} =>
            calls[w.job.index].recv = 1 /\ calls[w.job.index].ci = 1
  /\ \A i \in DOMAIN calls : calls[i].ci <= calls[i].recv

\* C23 witness: two workers hold dequeued jobs and wait at the gate, no
\* tick is available, and another job is still in the queue.
C23_Witness ==
  /\ Cardinality({w \in busy : w.pc = "tick"}) >= 2
  /\ tickerC = 0 /\ Len(jobs) > 0

----------------------------------------------------------------------------
(* Order and independence of aggregation calls *)

\* Positions of the configured providers among the first n registered.
ConfiguredBelow(n) ==
  SelectSeq([i \in 1..n |-> i], LAMBDA i : providers[i].configured)

\* C24: at every moment of an aggregation call the GetActivities calls
\* made so far, each with its answer, are the configured providers among
\* those the loop has passed, each once and in registration order; a call
\* that has returned has passed every registered provider.
C24_OncePerProviderInOrder ==
  aggPC \in {"loop", "done"} =>
    /\ aggIdx <= Len(providers)
    /\ [k \in 1..Len(aggCalls) |-> aggCalls[k].provider] = ConfiguredBelow(aggIdx)
    /\ AggDone => aggIdx = Len(providers)

\* C24 witness: inside the loop, the first two of three configured
\* providers have answered, the first with an error, and the third has not
\* been asked yet.
C24_Witness ==
  /\ aggPC = "loop" /\ Len(providers) = 3 /\ aggIdx = 2
  /\ \A i \in 1..3 : providers[i].configured
  /\ Len(aggCalls) = 2 /\ aggCalls[1].result.err

----------------------------------------------------------------------------
(* Further properties of getGitHubReviews *)

\* The list holds, in the order of the listing, one item per candidate with
\* the candidate's base fields and empty CIStatus and PRDetails.
BaseItemsOf(items, listing) ==
  /\ Len(items) = Len(listing)
  /\ \A i \in 1..Len(listing) :
       /\ items[i].TodoItem = TodoItemOf(listing[i])
       /\ items[i].CIStatus = ZeroCIStatus
       /\ items[i].PRDetails = ZeroPRDetails

\* C26: with skipDetails set, enrichPRsConcurrently is never called: no
\* worker, no ticker, no detail call; and when both listings succeeded the
\* call returns, for each listing, its candidates in order as base items,
\* having done nothing but the two listings and the two conversions.
C26_SkipDetailsConvertsOnly ==
  skipDetails =>
    /\ PoolNotCalled
    /\ (revPC = "returned" /\ revErr = NoErr) =>
         /\ BaseItemsOf(reviews.UserRequests, userRequests)
         /\ BaseItemsOf(reviews.TeamRequests, teamRequests)
         /\ revLog = <<[step |-> "GetUserReviewRequests", ok |-> TRUE],
                       [step |-> "GetTeamReviewRequests", ok |-> TRUE],
                       [step |-> "convert user", ok |-> TRUE],
                       [step |-> "convert team", ok |-> TRUE]>>

\* C26 witness: a call with skipDetails returned both lists, of two
\* candidates each, the team's in another order than the user's.
C26_Witness ==
  /\ skipDetails /\ revPC = "returned" /\ revErr = NoErr
  /\ Len(reviews.UserRequests) = 2 /\ Len(reviews.TeamRequests) = 2
  /\ reviews.UserRequests[1] # reviews.TeamRequests[1]
  /\ reviews.UserRequests[1].TodoItem.ID # 0

\* C27: the pool for the team requests is started only when the pool for
\* the user requests has returned: all its results collected, all its
\* workers exited, none holding a job, its ticker stopped and its list
\* stored as the user items; so the detail fetches in flight at any moment
\* are those of one pool, at most maxWorkers.
C27_TeamPoolAfterUserPool ==
  /\ [](Cardinality(InFlight) <= min(maxWorkers, Len(prs)))
  /\ [][(revPC = "team" /\ revPC' = "teamPool") =>
          /\ mainPC = "returned" /\ prs = userRequests
          /\ collected = Len(prs) /\ exited = NumWorkers
          /\ idle = 0 /\ busy = {} /\ ~tickerOn
          /\ reviews.UserRequests = ret
          /\ prs' = teamRequests /\ mainPC' = "start"]_vars

\* C27 witness: the team pool has two detail fetches in flight after the
\* user pool returned two items.
C27_Witness ==
  /\ revPC = "teamPool" /\ Cardinality(InFlight) = 2
  /\ Len(reviews.UserRequests) = 2 /\ Len(userRequests) = 2

\* C25: every call builds its list from nothing: all the way through a
\* call the list holds the items the call's own successful GetActivities
\* calls returned and no other, whatever the call before returned, and the
\* Summary returned is that list; and no step of a call changes the
\* registered providers.
C25_CallsIndependent ==
  /\ [](aggPC \in {"loop", "done"} =>
         /\ allActivities = Joined(Len(aggCalls))
         /\ AggDone => summary.Activities = allActivities)
  /\ [][aggPC' \in {"loop", "done"} => providers' = providers]_vars

\* C25 witness: a call returned an empty Summary over the providers that
\* had given the call before it three items.
C25_Witness ==
  /\ AggDone /\ prevCall.done
  /\ Len(prevCall.activities) = 3 /\ prevCall.providers = providers
  /\ Len(aggCalls) = 2 /\ summary.Activities = <<>>

\* The two calls got the same answer from every provider both queried.
SameResponses ==
  \A k \in 1..Len(prevCall.calls), j \in 1..Len(aggCalls) :
    prevCall.calls[k].provider = aggCalls[j].provider
      => prevCall.calls[k].result = aggCalls[j].result

----------------------------------------------------------------------------
(* The sum command and the cache *)

\* The cache calls a run of the sum command has made so far.
CacheCallsOfRun == SelectSeq(sumLog, LAMBDA e : e \notin
                     {"GetSummaryByTimeRange", "GetSummaryWithVerbose"})

\* C29: a run that got the cached summary from Get renders that summary
\* and returns, having asked no provider and written no file; the summary
\* is looked up in the cache, and a file of the cache is written, only by
\* date-based runs on a date ShouldCache accepts, a write only after the
\* providers were asked; a Get that finds nothing means no file of that
\* name exists; a since-based run makes no cache call at all.
C29_ProvidersOnlyOnMiss ==
  /\ [](usingSince => CacheCallsOfRun = <<>>)
  /\ []((\E k \in 1..Len(sumLog) : sumLog[k] = "Get: summary") =>
          /\ sumLog = <<"ShouldCache", "Get: summary">>
          /\ sumPC = "returned" /\ sumOut.from = "cache" /\ sumOut.err = NoErr
          /\ \E f \in files : f.name = getFilename(targetDate)
                                /\ f.data = sumOut.shown
          /\ providers = <<>> /\ aggPC = "idle" /\ aggCalls = <<>>)
  /\ [](sumOut.from = "providers" =>
          \A k \in 1..Len(sumLog) : sumLog[k] # "Get: summary")
  /\ [][sumLog' = sumLog \o <<"ShouldCache", "Get: nil">> =>
          \A f \in files : f.name # getFilename(targetDate)]_vars
  /\ [][files' # files =>
          /\ ~usingSince /\ sumPC = "store" /\ AggReturned
          /\ "GetSummaryWithVerbose" = sumLog[Len(sumLog)]]_vars

\* C29 witness: a date-based run for yesterday returned the summary a run
\* before it had cached, one item, without calling the aggregator.
C29_Witness ==
  /\ sumPC = "returned" /\ sumFlags.date = "yesterday"
  /\ sumOut.from = "cache" /\ sumOut.shown.Activities = <<1>>
  /\ aggCalls = <<>>

----------------------------------------------------------------------------
(* The TUI models *)

\* C30 as claimed: Update never reads allItems at an index outside
\* 0..len(allItems)-1, and selectedItem is a valid index whenever the list
\* is not empty.
C30_IndexInRange ==
  /\ ~tuiPanic
  /\ tuiReads \subseteq 0..(Len(allItems) - 1)
  /\ Len(allItems) > 0 => selectedItem \in 0..(Len(allItems) - 1)

====
